---- MODULE Spec2Model ----
(***************************************************************************)
(* Model of the HackberryPi MAX17048 fuel-gauge driver                     *)
(* (src/hackberrypi-max17048.c): the register conversions and classifiers, *)
(* the configuration resolved by max17048_probe, and the two notification  *)
(* sources (the delayed work and the threaded ALRT interrupt handler).     *)
(***************************************************************************)
EXTENDS Integers, Sequences, FiniteSets, TLC

(* ---------------- program constants (#define lines 30-46) -------------- *)
MAX17048_SOC_LSB_INV == 256
MAX17048_CRATE_NOISE_THR == 4
MAX17048_FULL_SOC_THR == 95
MAX17048_TTE_CONST_NUM == 225000
MAX17048_TTE_CONST_DEN == 13
MAX17048_TTE_RATE_THR == 10
MAX17048_CAP_FULL_THR == 99
MAX17048_CAP_CRIT_THR == 5
MAX17048_CAP_LOW_THR == 15
MAX17048_DEFAULT_CAP_UAH == 5000000
MAX17048_MAX_CAP_UAH == 10000000
MAX17048_MAX_ENERGY_UWH == 18500000
MAX17048_TTE_TUNING_FACTOR == 8
LEGACY_CAP_MAH_LIMIT == 20000
HEARTBEAT_MS == 300000
POLL_MS == 30000
ENODATA == 61

(* enum values of linux/power_supply.h used by the classifiers *)
POWER_SUPPLY_STATUS_UNKNOWN == 0
POWER_SUPPLY_STATUS_CHARGING == 1
POWER_SUPPLY_STATUS_DISCHARGING == 2
POWER_SUPPLY_STATUS_NOT_CHARGING == 3
POWER_SUPPLY_STATUS_FULL == 4
POWER_SUPPLY_CAPACITY_LEVEL_UNKNOWN == 0
POWER_SUPPLY_CAPACITY_LEVEL_CRITICAL == 1
POWER_SUPPLY_CAPACITY_LEVEL_LOW == 2
POWER_SUPPLY_CAPACITY_LEVEL_NORMAL == 3
POWER_SUPPLY_CAPACITY_LEVEL_FULL == 5

(* ---------------- bounds of the model ---------------------------------- *)
\* every sampled input lies within Span of a threshold the code compares to
Span == 1

\* largest sampled device-property value, 2^31 - 1: the largest integer TLC
\* represents.  The code only compares a value this large with its limits,
\* so every larger u32 takes the same branches.
PropMax == (2^30 - 1) * 2 + 1
U16Max == 65535

Near(t) == (t - Span)..(t + Span)

(* ---------------- integer conversions ---------------------------------- *)
\* The (u32) and (int) casts of lines 173-484 are applied to values in
\* 0..2^31-1 only, which they keep: TLC's integers are 32-bit and it stops
\* with an error on any overflow, so a value out of that range cannot pass
\* unnoticed.

\* (int16_t) crate_raw, line 148
SignExtend16(raw) == LET m == raw % 65536 IN IF m >= 32768 THEN m - 65536 ELSE m

\* abs(), line 228 (the int16_t argument is promoted to int first)
Abs(x) == IF x < 0 THEN -x ELSE x

\* div_s64 / div_u64: C division, truncating toward zero
div_s64(a, b) == IF (a >= 0) = (b >= 0) THEN Abs(a) \div Abs(b) ELSE -(Abs(a) \div Abs(b))

(* ---------------- register reads --------------------------------------- *)
\* outcome of one regmap_read: ret = 0 and a 16-bit value, or a negative errno
Ok(v) == [ret |-> 0, val |-> v]
Err(e) == [ret |-> e, val |-> 0]

\* -EIO, -ETIMEDOUT
TransportErrors == {-5, -110}

\* max17048_get_soc, lines 118-131: percent 0..100 or the negative errno
max17048_get_soc(rd) ==
  IF rd.ret # 0 THEN rd.ret
  ELSE LET soc == rd.val \div MAX17048_SOC_LSB_INV
       IN IF soc > 100 THEN 100 ELSE soc

\* max17048_get_crate, lines 140-150; crate is meaningful only when ret = 0
max17048_get_crate(rd) ==
  [ret |-> rd.ret, crate |-> IF rd.ret # 0 THEN 0 ELSE SignExtend16(rd.val)]

(* ---------------- classifiers and estimators --------------------------- *)
\* Each takes the outcomes the register reads would have, in the order the
\* code issues them, and yields the result with the reads actually made.

\* variant: the noise band excludes its end points
max17048_get_status_strict(crate_rd, soc_rd) ==
  LET c == max17048_get_crate(crate_rd) IN
  IF c.ret # 0 THEN [status |-> POWER_SUPPLY_STATUS_UNKNOWN, reads |-> <<crate_rd>>]
  ELSE IF c.crate >= MAX17048_CRATE_NOISE_THR
    THEN [status |-> POWER_SUPPLY_STATUS_CHARGING, reads |-> <<crate_rd>>]
  ELSE IF c.crate <= -MAX17048_CRATE_NOISE_THR
    THEN [status |-> POWER_SUPPLY_STATUS_DISCHARGING, reads |-> <<crate_rd>>]
  ELSE IF max17048_get_soc(soc_rd) >= MAX17048_FULL_SOC_THR
    THEN [status |-> POWER_SUPPLY_STATUS_FULL, reads |-> <<crate_rd, soc_rd>>]
  ELSE [status |-> POWER_SUPPLY_STATUS_NOT_CHARGING, reads |-> <<crate_rd, soc_rd>>]

\* max17048_get_status, lines 183-205
max17048_get_status(crate_rd, soc_rd) ==
  LET c == max17048_get_crate(crate_rd) IN
  IF c.ret # 0 THEN [status |-> POWER_SUPPLY_STATUS_UNKNOWN, reads |-> <<crate_rd>>]
  ELSE IF c.crate > MAX17048_CRATE_NOISE_THR
    THEN [status |-> POWER_SUPPLY_STATUS_CHARGING, reads |-> <<crate_rd>>]
  ELSE IF c.crate < -MAX17048_CRATE_NOISE_THR
    THEN [status |-> POWER_SUPPLY_STATUS_DISCHARGING, reads |-> <<crate_rd>>]
  ELSE LET soc == max17048_get_soc(soc_rd) IN
    \* soc is not tested for an error here: a negative errno is just < 95
    IF soc >= MAX17048_FULL_SOC_THR
    THEN [status |-> POWER_SUPPLY_STATUS_FULL, reads |-> <<crate_rd, soc_rd>>]
    ELSE [status |-> POWER_SUPPLY_STATUS_NOT_CHARGING, reads |-> <<crate_rd, soc_rd>>]

\* variant: the tuning factor is left out
max17048_get_time_to_empty_untuned(crate_rd, soc_rd, old) ==
  LET c == max17048_get_crate(crate_rd) IN
  IF c.ret # 0 THEN [ret |-> c.ret, val |-> old, reads |-> <<crate_rd>>]
  ELSE IF c.crate >= -MAX17048_TTE_RATE_THR
    THEN [ret |-> -ENODATA, val |-> old, reads |-> <<crate_rd>>]
  ELSE LET soc == max17048_get_soc(soc_rd) IN
    IF soc < 0 THEN [ret |-> soc, val |-> old, reads |-> <<crate_rd, soc_rd>>]
    ELSE [ret |-> 0,
          val |-> div_s64(MAX17048_TTE_CONST_NUM * soc,
                                Abs(c.crate) * MAX17048_TTE_CONST_DEN),
          reads |-> <<crate_rd, soc_rd>>]

\* max17048_get_time_to_empty, lines 212-235; old is the caller's *val
max17048_get_time_to_empty(crate_rd, soc_rd, old) ==
  LET c == max17048_get_crate(crate_rd) IN
  IF c.ret # 0 THEN [ret |-> c.ret, val |-> old, reads |-> <<crate_rd>>]
  ELSE IF c.crate >= -MAX17048_TTE_RATE_THR
    THEN [ret |-> -ENODATA, val |-> old, reads |-> <<crate_rd>>]
  ELSE LET soc == max17048_get_soc(soc_rd) IN
    IF soc < 0 THEN [ret |-> soc, val |-> old, reads |-> <<crate_rd, soc_rd>>]
    ELSE LET discharge_rate == Abs(c.crate) IN
         [ret |-> 0,
          val |-> div_s64(MAX17048_TTE_CONST_NUM * soc * MAX17048_TTE_TUNING_FACTOR,
                                discharge_rate * MAX17048_TTE_CONST_DEN),
          reads |-> <<crate_rd, soc_rd>>]

\* variant: the remaining charge is taken as soc instead of 100 - soc
max17048_get_time_to_full_soc(crate_rd, soc_rd, old) ==
  LET c == max17048_get_crate(crate_rd) IN
  IF c.ret # 0 THEN [ret |-> c.ret, val |-> old, reads |-> <<crate_rd>>]
  ELSE IF c.crate <= MAX17048_TTE_RATE_THR
    THEN [ret |-> -ENODATA, val |-> old, reads |-> <<crate_rd>>]
  ELSE LET soc == max17048_get_soc(soc_rd) IN
    IF soc < 0 THEN [ret |-> soc, val |-> old, reads |-> <<crate_rd, soc_rd>>]
    ELSE [ret |-> 0,
          val |-> div_s64(MAX17048_TTE_CONST_NUM * soc,
                                c.crate * MAX17048_TTE_CONST_DEN),
          reads |-> <<crate_rd, soc_rd>>]

\* max17048_get_time_to_full, lines 242-260
max17048_get_time_to_full(crate_rd, soc_rd, old) ==
  LET c == max17048_get_crate(crate_rd) IN
  IF c.ret # 0 THEN [ret |-> c.ret, val |-> old, reads |-> <<crate_rd>>]
  ELSE IF c.crate <= MAX17048_TTE_RATE_THR
    THEN [ret |-> -ENODATA, val |-> old, reads |-> <<crate_rd>>]
  ELSE LET soc == max17048_get_soc(soc_rd) IN
    IF soc < 0 THEN [ret |-> soc, val |-> old, reads |-> <<crate_rd, soc_rd>>]
    ELSE [ret |-> 0,
          val |-> div_s64(MAX17048_TTE_CONST_NUM * (100 - soc),
                                c.crate * MAX17048_TTE_CONST_DEN),
          reads |-> <<crate_rd, soc_rd>>]

\* variant: the percent thresholds are tested before the Full check
max17048_get_capacity_level_pct_first(soc_rd, crate_rd, soc_rd2) ==
  LET soc == max17048_get_soc(soc_rd)
      st == max17048_get_status(crate_rd, soc_rd2)
      rds == <<soc_rd>> \o st.reads
  IN IF soc < 0 THEN [level |-> POWER_SUPPLY_CAPACITY_LEVEL_UNKNOWN, reads |-> rds]
     ELSE IF soc <= MAX17048_CAP_CRIT_THR
       THEN [level |-> POWER_SUPPLY_CAPACITY_LEVEL_CRITICAL, reads |-> rds]
     ELSE IF soc <= MAX17048_CAP_LOW_THR
       THEN [level |-> POWER_SUPPLY_CAPACITY_LEVEL_LOW, reads |-> rds]
     ELSE IF st.status = POWER_SUPPLY_STATUS_FULL \/ soc >= MAX17048_CAP_FULL_THR
       THEN [level |-> POWER_SUPPLY_CAPACITY_LEVEL_FULL, reads |-> rds]
     ELSE [level |-> POWER_SUPPLY_CAPACITY_LEVEL_NORMAL, reads |-> rds]

\* max17048_get_capacity_level, lines 266-281: its own charge-percent read,
\* then the reads of max17048_get_status
max17048_get_capacity_level(soc_rd, crate_rd, soc_rd2) ==
  LET soc == max17048_get_soc(soc_rd)
      st == max17048_get_status(crate_rd, soc_rd2)
      rds == <<soc_rd>> \o st.reads
  IN IF soc < 0 THEN [level |-> POWER_SUPPLY_CAPACITY_LEVEL_UNKNOWN, reads |-> rds]
     ELSE IF st.status = POWER_SUPPLY_STATUS_FULL \/ soc >= MAX17048_CAP_FULL_THR
       THEN [level |-> POWER_SUPPLY_CAPACITY_LEVEL_FULL, reads |-> rds]
     ELSE IF soc <= MAX17048_CAP_CRIT_THR
       THEN [level |-> POWER_SUPPLY_CAPACITY_LEVEL_CRITICAL, reads |-> rds]
     ELSE IF soc <= MAX17048_CAP_LOW_THR
       THEN [level |-> POWER_SUPPLY_CAPACITY_LEVEL_LOW, reads |-> rds]
     ELSE [level |-> POWER_SUPPLY_CAPACITY_LEVEL_NORMAL, reads |-> rds]

\* max17048_ac_get_property, POWER_SUPPLY_PROP_ONLINE, lines 398-402
max17048_ac_get_property(crate_rd, soc_rd) ==
  LET st == max17048_get_status(crate_rd, soc_rd) IN
  [ret |-> 0,
   val |-> IF st.status = POWER_SUPPLY_STATUS_CHARGING \/ st.status = POWER_SUPPLY_STATUS_FULL
           THEN 1 ELSE 0,
   reads |-> st.reads]

(* ---------------- configuration resolved by probe ---------------------- *)
\* A device property is Absent or a u32.  device_property_read_u32 leaves
\* the destination untouched when the property is absent; drv is zeroed by
\* devm_kzalloc.
Absent == -1

\* charge_full_design_uah after lines 459-478
resolve_charge(uah_prop, mah_prop) ==
  LET v0 == IF uah_prop = Absent THEN 0 ELSE uah_prop
      v1 == IF v0 > MAX17048_MAX_CAP_UAH THEN MAX17048_MAX_CAP_UAH ELSE v0
      v2 == IF uah_prop = Absent /\ mah_prop # Absent
               /\ mah_prop > 0 /\ mah_prop < LEGACY_CAP_MAH_LIMIT
            THEN mah_prop * 1000 ELSE v1
  IN IF v2 = 0 THEN MAX17048_DEFAULT_CAP_UAH ELSE v2

\* energy_full_design_uwh after lines 480-488
resolve_energy(uah, uwh_prop) ==
  LET e0 == IF uwh_prop = Absent \/ uwh_prop = 0
            THEN div_s64(uah * 37, 10) ELSE uwh_prop
  IN IF e0 > MAX17048_MAX_ENERGY_UWH THEN MAX17048_MAX_ENERGY_UWH ELSE e0


(* ---------------- sampled inputs --------------------------------------- *)
InU32(S) == {x \in S : x >= 0 /\ x <= PropMax}

UahProps == {Absent} \cup InU32(Near(0) \cup Near(MAX17048_DEFAULT_CAP_UAH)
               \cup Near(MAX17048_MAX_CAP_UAH) \cup {PropMax - k : k \in 0..Span})

MahProps == {Absent} \cup InU32(Near(0) \cup Near(MAX17048_MAX_CAP_UAH \div 1000)
               \cup Near(LEGACY_CAP_MAH_LIMIT) \cup {PropMax - k : k \in 0..Span})

UwhProps == {Absent} \cup InU32(Near(0) \cup Near(MAX17048_MAX_ENERGY_UWH)
               \cup {PropMax - k : k \in 0..Span})

\* signed C-rate codes around every threshold, and the two extremes
CrateValues == Near(-MAX17048_TTE_RATE_THR) \cup Near(-MAX17048_CRATE_NOISE_THR)
               \cup Near(0) \cup Near(MAX17048_CRATE_NOISE_THR)
               \cup Near(MAX17048_TTE_RATE_THR) \cup {-32768, -20, 20, 32767}

\* the 16-bit register codes of those values, as regmap_read delivers them
CrateOutcomes == {Ok(c % 65536) : c \in CrateValues} \cup {Err(e) : e \in TransportErrors}

SocPercents == (Near(0) \cup Near(MAX17048_CAP_CRIT_THR) \cup Near(MAX17048_CAP_LOW_THR)
                \cup Near(50) \cup Near(MAX17048_FULL_SOC_THR)
                \cup Near(MAX17048_CAP_FULL_THR) \cup Near(100)) \cap (0..255)

\* SOC register codes: 1/256 % per LSB, low and high fraction, and 0xFFFF
SocOutcomes == {Ok(p * MAX17048_SOC_LSB_INV + f) : p \in SocPercents, f \in {0, 255}}
               \cup {Ok(U16Max)} \cup {Err(e) : e \in TransportErrors}

StatusOutcomes == {Ok(0), Ok(U16Max)} \cup {Err(e) : e \in TransportErrors}

(* ---------------- state ------------------------------------------------ *)
VARIABLES
  drvstate,                 \* unbound, bound, removing, removed, released, probe_failed
  charge_full_design_uah,   \* struct max17048, line 76
  energy_full_design_uwh,   \* line 77
  delay,                    \* line 80, in the milliseconds given to msecs_to_jiffies
  irq_requested,            \* the ALRT interrupt is requested (devm), line 516
  work_timer,               \* drv->work: 0 = not pending, else the delay it was armed with
  work_pc,                  \* position of max17048_work
  irq_pc,                   \* position of the max17048_irq_handler thread
  irq_ret,                  \* ret of the handler's status read, line 434
  alrt,                     \* the ALRT line is asserted
  changed,                  \* the last power_supply_changed call
  call,                     \* the property function last called
  reads,                    \* the register reads it made, in order
  ret,                      \* its return value
  intval                    \* the caller's *val / val->intval

sched_vars == <<drvstate, charge_full_design_uah, energy_full_design_uwh, delay,
                irq_requested, work_timer, work_pc, irq_pc, irq_ret, alrt, changed>>
prop_vars == <<call, reads, ret, intval>>
vars == <<sched_vars, prop_vars>>

\* power_supply_changed(psy) issued by src
power_supply_changed(src, psy) == [src |-> src, psy |-> psy, seq |-> 1 - changed.seq]

\* variant: never arms the timer
schedule_delayed_work_noop(timer, d, canceling) == timer

\* schedule_delayed_work, lines 425 and 530: arms the timer unless the work is
\* already pending or a cancel_delayed_work_sync is in progress
schedule_delayed_work(timer, d, canceling) ==
  IF timer # 0 \/ canceling THEN timer ELSE d

Init ==
  /\ drvstate = "unbound"
  /\ charge_full_design_uah = 0
  /\ energy_full_design_uwh = 0
  /\ delay = 0
  /\ irq_requested = FALSE
  /\ work_timer = 0
  /\ work_pc = "idle"
  /\ irq_pc = "idle"
  /\ irq_ret = 0
  /\ alrt = FALSE
  /\ changed = [src |-> "none", psy |-> "none", seq |-> 0]
  /\ call = "none"
  /\ reads = <<>>
  /\ ret = 0
  /\ intval = 0

(* ---------------- probe and remove ------------------------------------- *)
\* max17048_probe returning an error (lines 447-457, 499-508, 519-521): the
\* device stays unbound and devres releases drv
ProbeFail ==
  /\ drvstate = "unbound"
  /\ drvstate' = "probe_failed"
  /\ UNCHANGED <<charge_full_design_uah, energy_full_design_uwh, delay, irq_requested,
                 work_timer, work_pc, irq_pc, irq_ret, alrt, changed, prop_vars>>

\* max17048_probe, lines 441-533, returning 0
Probe ==
  /\ drvstate = "unbound"
  /\ \E uah_prop \in UahProps, mah_prop \in MahProps, uwh_prop \in UwhProps,
        client_irq \in BOOLEAN :
       LET uah == resolve_charge(uah_prop, mah_prop)
           d == IF client_irq THEN HEARTBEAT_MS ELSE POLL_MS
       IN /\ charge_full_design_uah' = uah
          /\ energy_full_design_uwh' = resolve_energy(uah, uwh_prop)
          /\ irq_requested' = client_irq
          /\ delay' = d
          /\ work_timer' = schedule_delayed_work(work_timer, d, FALSE)
  /\ drvstate' = "bound"
  /\ UNCHANGED <<work_pc, irq_pc, irq_ret, alrt, changed, prop_vars>>

\* max17048_remove, line 537: cancel_delayed_work_sync deletes the timer ...
RemoveCancel ==
  /\ drvstate = "bound"
  /\ drvstate' = "removing"
  /\ work_timer' = 0
  /\ UNCHANGED <<charge_full_design_uah, energy_full_design_uwh, delay, irq_requested,
                 work_pc, irq_pc, irq_ret, alrt, changed, prop_vars>>

\* ... and returns once a running max17048_work has finished
RemoveReturn ==
  /\ drvstate = "removing"
  /\ work_pc = "idle"
  /\ drvstate' = "removed"
  /\ UNCHANGED <<charge_full_design_uah, energy_full_design_uwh, delay, irq_requested,
                 work_timer, work_pc, irq_pc, irq_ret, alrt, changed, prop_vars>>

\* the device-managed interrupt of line 516 is freed by the driver core only
\* after remove has returned; free_irq waits for a running handler thread
DevresRelease ==
  /\ drvstate = "removed"
  /\ irq_pc = "idle"
  /\ drvstate' = "released"
  /\ irq_requested' = FALSE
  /\ UNCHANGED <<charge_full_design_uah, energy_full_design_uwh, delay,
                 work_timer, work_pc, irq_pc, irq_ret, alrt, changed, prop_vars>>

(* ---------------- max17048_work, lines 421-426 ------------------------- *)
\* the timer expires and a worker starts the function
WorkStart ==
  /\ work_timer # 0
  /\ work_pc = "idle"
  /\ work_timer' = 0
  /\ work_pc' = "changed_battery"
  /\ UNCHANGED <<drvstate, charge_full_design_uah, energy_full_design_uwh, delay,
                 irq_requested, irq_pc, irq_ret, alrt, changed, prop_vars>>

WorkChangedBattery ==
  /\ work_pc = "changed_battery"
  /\ changed' = power_supply_changed("tick", "battery")
  /\ work_pc' = "changed_ac"
  /\ UNCHANGED <<drvstate, charge_full_design_uah, energy_full_design_uwh, delay,
                 irq_requested, work_timer, irq_pc, irq_ret, alrt, prop_vars>>

WorkChangedAc ==
  /\ work_pc = "changed_ac"
  /\ changed' = power_supply_changed("tick", "ac")
  /\ work_pc' = "schedule"
  /\ UNCHANGED <<drvstate, charge_full_design_uah, energy_full_design_uwh, delay,
                 irq_requested, work_timer, irq_pc, irq_ret, alrt, prop_vars>>

WorkSchedule ==
  /\ work_pc = "schedule"
  /\ work_timer' = schedule_delayed_work(work_timer, delay, drvstate = "removing")
  /\ work_pc' = "idle"
  /\ UNCHANGED <<drvstate, charge_full_design_uah, energy_full_design_uwh, delay,
                 irq_requested, irq_pc, irq_ret, alrt, changed, prop_vars>>

(* ---------------- max17048_irq_handler, lines 428-439 ------------------ *)
\* the fuel gauge asserts ALRT
AlertAssert ==
  /\ ~alrt
  /\ alrt' = TRUE
  /\ UNCHANGED <<drvstate, charge_full_design_uah, energy_full_design_uwh, delay,
                 irq_requested, work_timer, work_pc, irq_pc, irq_ret, changed, prop_vars>>

\* variant: an alert that finds the work function running is dropped
IrqStartCoalescing ==
  /\ irq_requested
  /\ alrt
  /\ irq_pc = "idle"
  /\ IF work_pc # "idle"
     THEN alrt' = FALSE /\ irq_pc' = irq_pc
     ELSE alrt' = alrt /\ irq_pc' = "read_status"
  /\ UNCHANGED <<drvstate, charge_full_design_uah, energy_full_design_uwh, delay,
                 irq_requested, work_timer, work_pc, irq_ret, changed, prop_vars>>

\* level-triggered, IRQF_ONESHOT (line 518): the thread is woken while the
\* line is asserted and is not woken again before it has returned
IrqStart ==
  /\ irq_requested
  /\ alrt
  /\ irq_pc = "idle"
  /\ irq_pc' = "read_status"
  /\ UNCHANGED <<drvstate, charge_full_design_uah, energy_full_design_uwh, delay,
                 irq_requested, work_timer, work_pc, irq_ret, alrt, changed, prop_vars>>

\* line 434: a successful status read releases the ALRT pin
IrqReadStatus ==
  /\ irq_pc = "read_status"
  /\ \E rd \in StatusOutcomes :
       /\ irq_ret' = rd.ret
       /\ alrt' = IF rd.ret = 0 THEN FALSE ELSE alrt
  /\ irq_pc' = "changed_battery"
  /\ UNCHANGED <<drvstate, charge_full_design_uah, energy_full_design_uwh, delay,
                 irq_requested, work_timer, work_pc, changed, prop_vars>>

IrqChangedBattery ==
  /\ irq_pc = "changed_battery"
  /\ changed' = power_supply_changed("alert", "battery")
  /\ irq_pc' = "changed_ac"
  /\ UNCHANGED <<drvstate, charge_full_design_uah, energy_full_design_uwh, delay,
                 irq_requested, work_timer, work_pc, irq_ret, alrt, prop_vars>>

IrqChangedAc ==
  /\ irq_pc = "changed_ac"
  /\ changed' = power_supply_changed("alert", "ac")
  /\ irq_pc' = "idle"
  /\ UNCHANGED <<drvstate, charge_full_design_uah, energy_full_design_uwh, delay,
                 irq_requested, work_timer, work_pc, irq_ret, alrt, prop_vars>>

Next ==
  \/ ProbeFail
  \/ Probe
  \/ RemoveCancel
  \/ RemoveReturn
  \/ DevresRelease
  \/ WorkStart
  \/ WorkChangedBattery
  \/ WorkChangedAc
  \/ WorkSchedule
  \/ AlertAssert
  \/ IrqStart
  \/ IrqReadStatus
  \/ IrqChangedBattery
  \/ IrqChangedAc

Spec == Init /\ [][Next]_vars

\* the timer expires, workers and the interrupt thread run: the kernel
\* schedules each of them once it is runnable
FairSpec ==
  /\ Init /\ [][Next]_vars
  /\ WF_vars(WorkStart) /\ WF_vars(WorkChangedBattery) /\ WF_vars(WorkChangedAc)
  /\ WF_vars(WorkSchedule)
  /\ WF_vars(IrqStart) /\ WF_vars(IrqReadStatus) /\ WF_vars(IrqChangedBattery)
  /\ WF_vars(IrqChangedAc)


(* ---------------- property reads of a bound device --------------------- *)
\* the state max17048_probe leaves with no property configured and no
\* interrupt line: the power supplies are registered and may be queried
PInit ==
  /\ drvstate = "bound"
  /\ charge_full_design_uah = resolve_charge(Absent, Absent)
  /\ energy_full_design_uwh = resolve_energy(resolve_charge(Absent, Absent), Absent)
  /\ delay = POLL_MS
  /\ irq_requested = FALSE
  /\ work_timer = schedule_delayed_work(0, POLL_MS, FALSE)
  /\ work_pc = "idle"
  /\ irq_pc = "idle"
  /\ irq_ret = 0
  /\ alrt = FALSE
  /\ changed = [src |-> "none", psy |-> "none", seq |-> 0]
  /\ call = "none"
  /\ reads = <<>>
  /\ ret = 0
  /\ intval = 0

\* POWER_SUPPLY_PROP_STATUS, line 294
GetStatus ==
  /\ drvstate = "bound"
  /\ call = "none"
  /\ \E crate_rd \in CrateOutcomes, soc_rd \in SocOutcomes :
       LET r == max17048_get_status(crate_rd, soc_rd)
       IN /\ call' = "get_status"
          /\ reads' = r.reads
          /\ ret' = r.status
          /\ intval' = intval
  /\ UNCHANGED sched_vars

\* POWER_SUPPLY_PROP_TIME_TO_EMPTY_NOW, line 340
GetTimeToEmpty ==
  /\ drvstate = "bound"
  /\ call = "none"
  /\ \E crate_rd \in CrateOutcomes, soc_rd \in SocOutcomes :
       LET r == max17048_get_time_to_empty(crate_rd, soc_rd, intval)
       IN /\ call' = "get_time_to_empty"
          /\ reads' = r.reads
          /\ ret' = r.ret
          /\ intval' = r.val
  /\ UNCHANGED sched_vars

\* POWER_SUPPLY_PROP_TIME_TO_FULL_NOW, line 345
GetTimeToFull ==
  /\ drvstate = "bound"
  /\ call = "none"
  /\ \E crate_rd \in CrateOutcomes, soc_rd \in SocOutcomes :
       LET r == max17048_get_time_to_full(crate_rd, soc_rd, intval)
       IN /\ call' = "get_time_to_full"
          /\ reads' = r.reads
          /\ ret' = r.ret
          /\ intval' = r.val
  /\ UNCHANGED sched_vars

\* POWER_SUPPLY_PROP_CAPACITY_LEVEL, line 309
GetCapacityLevel ==
  /\ drvstate = "bound"
  /\ call = "none"
  /\ \E soc_rd \in SocOutcomes, crate_rd \in CrateOutcomes, soc_rd2 \in SocOutcomes :
       LET r == max17048_get_capacity_level(soc_rd, crate_rd, soc_rd2)
       IN /\ call' = "get_capacity_level"
          /\ reads' = r.reads
          /\ ret' = r.level
          /\ intval' = intval
  /\ UNCHANGED sched_vars

\* POWER_SUPPLY_PROP_ONLINE of the AC adapter, lines 398-402
AcGetOnline ==
  /\ drvstate = "bound"
  /\ call = "none"
  /\ \E crate_rd \in CrateOutcomes, soc_rd \in SocOutcomes :
       LET r == max17048_ac_get_property(crate_rd, soc_rd)
       IN /\ call' = "ac_get_property"
          /\ reads' = r.reads
          /\ ret' = r.ret
          /\ intval' = r.val
  /\ UNCHANGED sched_vars

\* the caller consumes the result; the next query comes with a fresh
\* union power_supply_propval
Return ==
  /\ call # "none"
  /\ call' = "none"
  /\ reads' = <<>>
  /\ ret' = 0
  /\ intval' = 0
  /\ UNCHANGED sched_vars

PNext ==
  \/ GetStatus
  \/ GetTimeToEmpty
  \/ GetTimeToFull
  \/ GetCapacityLevel
  \/ AcGetOnline
  \/ Return

PropSpec == PInit /\ [][PNext]_vars


(* ======================= properties ==================================== *)
Probed == drvstate \in {"bound", "removing", "removed", "released"}
RemoveReturned == drvstate \in {"removed", "released"}
WorkActive == work_pc # "idle"
\* a step in which src issues a state-changed notification
Notifies(src) == changed' # changed /\ changed'.src = src

\* the signed C-rate and the charge percent a successful read delivers
CrateOf(rd) == SignExtend16(rd.val)
PercentOf(rd) == IF rd.val \div 256 > 100 THEN 100 ELSE rd.val \div 256
InBand(c) == -4 <= c /\ c <= 4

C2_SilentAfterRemove ==
  [][RemoveReturned => (changed' = changed)]_vars

\* C3: a pass whose status-register read failed issues no state-changed
\* notification.
C3_FailedPassSilent ==
  [][(irq_pc \in {"changed_battery", "changed_ac"} /\ irq_ret # 0) => ~Notifies("alert")]_vars

\* C4: after a successful probe the design charge lies in [1, 10,000,000] uAh
\* and the design energy in [1, 18,500,000] uWh.
C4_DesignWithinLimits ==
  Probed => /\ charge_full_design_uah >= 1 /\ charge_full_design_uah <= 10000000
            /\ energy_full_design_uwh >= 1 /\ energy_full_design_uwh <= 18500000

\* C5 (as stated): time-to-empty is defined exactly for crate <= -10, where
\* it is floor(225000 * percent * 8 / (|crate| * 13)); any other crate gives
\* the no-data outcome.
C5_DefinedFromMinus10 ==
  (call = "get_time_to_empty" /\ reads[1].ret = 0) =>
    IF CrateOf(reads[1]) <= -10
    THEN /\ Len(reads) = 2
         /\ reads[2].ret = 0 =>
              /\ ret = 0
              /\ intval = (225000 * PercentOf(reads[2]) * 8) \div (Abs(CrateOf(reads[1])) * 13)
    ELSE ret = -ENODATA

\* C5 (amended): time-to-empty is defined exactly for crate <= -11 (crate
\* < -10, the boundary -10 excluded), where it is
\* floor(225000 * percent * 8 / (|crate| * 13)), also for crate = -32768;
\* every crate >= -10 gives the no-data outcome, distinct from a value and
\* from a transport error.
C5_DefinedBelowMinus10 ==
  (call = "get_time_to_empty" /\ reads[1].ret = 0) =>
    IF CrateOf(reads[1]) <= -11
    THEN /\ Len(reads) = 2
         /\ reads[2].ret = 0 =>
              /\ ret = 0
              /\ intval = (225000 * PercentOf(reads[2]) * 8) \div (Abs(CrateOf(reads[1])) * 13)
    ELSE /\ ret = -ENODATA
         /\ ret \notin TransportErrors
         /\ Len(reads) = 1

C5_Witness ==
  /\ call = "get_time_to_empty"
  /\ Len(reads) = 2 /\ reads[1].ret = 0 /\ reads[2].ret = 0
  /\ CrateOf(reads[1]) = -11
  /\ ret = 0 /\ intval > 0

\* C6 (as stated): time-to-full is defined exactly for crate >= 10, where it
\* is floor(225000 * (100 - percent) / (crate * 13)); any other crate gives
\* the no-data outcome.
C6_DefinedFrom10 ==
  (call = "get_time_to_full" /\ reads[1].ret = 0) =>
    IF CrateOf(reads[1]) >= 10
    THEN /\ Len(reads) = 2
         /\ reads[2].ret = 0 =>
              /\ ret = 0
              /\ intval = (225000 * (100 - PercentOf(reads[2]))) \div (CrateOf(reads[1]) * 13)
    ELSE ret = -ENODATA

\* C6 (amended): time-to-full is defined exactly for crate >= 11 (crate > 10,
\* the boundary +10 excluded), where it is
\* floor(225000 * (100 - percent) / (crate * 13)) with no tuning factor;
\* every crate <= 10 gives the no-data outcome.
C6_DefinedAbove10 ==
  (call = "get_time_to_full" /\ reads[1].ret = 0) =>
    IF CrateOf(reads[1]) >= 11
    THEN /\ Len(reads) = 2
         /\ reads[2].ret = 0 =>
              /\ ret = 0
              /\ intval = (225000 * (100 - PercentOf(reads[2]))) \div (CrateOf(reads[1]) * 13)
    ELSE /\ ret = -ENODATA
         /\ Len(reads) = 1

C6_Witness ==
  /\ call = "get_time_to_full"
  /\ Len(reads) = 2 /\ reads[1].ret = 0 /\ reads[2].ret = 0
  /\ CrateOf(reads[1]) = 11
  /\ ret = 0 /\ intval > 0

\* C7: the capacity level is Unknown if its own charge-percent read failed;
\* otherwise Full if the classified status is Full or percent >= 99, before
\* any percent threshold; otherwise Critical if percent <= 5, Low if
\* percent <= 15, else Normal - for every outcome of the three reads.
C7_CapacityLevel ==
  call = "get_capacity_level" =>
    LET own == reads[1]
        statusFull == /\ Len(reads) = 3
                      /\ reads[2].ret = 0 /\ InBand(CrateOf(reads[2]))
                      /\ reads[3].ret = 0 /\ PercentOf(reads[3]) >= 95
    IN ret = IF own.ret # 0 THEN POWER_SUPPLY_CAPACITY_LEVEL_UNKNOWN
             ELSE IF statusFull \/ PercentOf(own) >= 99 THEN POWER_SUPPLY_CAPACITY_LEVEL_FULL
             ELSE IF PercentOf(own) <= 5 THEN POWER_SUPPLY_CAPACITY_LEVEL_CRITICAL
             ELSE IF PercentOf(own) <= 15 THEN POWER_SUPPLY_CAPACITY_LEVEL_LOW
             ELSE POWER_SUPPLY_CAPACITY_LEVEL_NORMAL

\* a status-driven Full that overrides a percent in the Critical range
C7_Witness ==
  /\ call = "get_capacity_level"
  /\ reads[1].ret = 0 /\ PercentOf(reads[1]) <= 5
  /\ ret = POWER_SUPPLY_CAPACITY_LEVEL_FULL

\* C8: the charge status is Unknown if the crate read failed, Charging for
\* crate > 4, Discharging for crate < -4, and in the band -4..4 Full for
\* percent >= 95 and NotCharging below; the charge-percent register is read
\* in the band case only.
C8_StatusTotal ==
  call = "get_status" =>
    IF reads[1].ret # 0 THEN ret = POWER_SUPPLY_STATUS_UNKNOWN /\ Len(reads) = 1
    ELSE IF CrateOf(reads[1]) > 4 THEN ret = POWER_SUPPLY_STATUS_CHARGING /\ Len(reads) = 1
    ELSE IF CrateOf(reads[1]) < -4 THEN ret = POWER_SUPPLY_STATUS_DISCHARGING /\ Len(reads) = 1
    ELSE /\ Len(reads) = 2
         /\ reads[2].ret = 0 =>
              ret = IF PercentOf(reads[2]) >= 95 THEN POWER_SUPPLY_STATUS_FULL
                    ELSE POWER_SUPPLY_STATUS_NOT_CHARGING

\* the band's lower end, from a register code with the sign bit set
C8_Witness ==
  /\ call = "get_status"
  /\ Len(reads) = 2 /\ reads[1].val > 32767 /\ CrateOf(reads[1]) = -4
  /\ reads[2].ret = 0 /\ ret = POWER_SUPPLY_STATUS_FULL

\* C9: when the crate read succeeds inside the band and the charge-percent
\* read then fails, the charge status is Unknown.
C9_UnknownOnFailedPercent ==
  (call = "get_status" /\ Len(reads) = 2 /\ reads[2].ret # 0) =>
    ret = POWER_SUPPLY_STATUS_UNKNOWN

\* C10: the interval is the one chosen at probe (300 s with an alert line,
\* 30 s without) and never changes; every completed Tick pass of a bound
\* device re-arms the timer with it; no step of the alert handler touches
\* the timer; and Tick notifications recur for as long as the device is bound.
C10_TickRearm ==
  /\ [](drvstate \in {"bound", "removing", "removed"} =>
          delay = IF irq_requested THEN 300000 ELSE 30000)
  /\ [][drvstate # "unbound" => (delay' = delay)]_vars
  /\ [][(work_pc = "schedule" /\ work_pc' = "idle" /\ drvstate = "bound")
          => (work_timer' = delay)]_vars
  /\ [][irq_pc' # irq_pc => (work_timer' = work_timer)]_vars
  /\ []<>(drvstate # "bound" \/ work_pc = "changed_ac")

\* a Tick pass has completed and re-armed the heartbeat
C10_Witness ==
  /\ drvstate = "bound" /\ irq_requested
  /\ changed.src = "tick" /\ changed.psy = "ac"
  /\ work_pc = "idle" /\ work_timer = 300000


====
